---------------------------- MODULE Spec2Model ----------------------------
(***************************************************************************)
(* Model of the picture-book slide generators:                             *)
(*   src/scripts/generate_story.py       (Marp Markdown entry point)       *)
(*   src/scripts/generate_html_story.py  (HTML slideshow entry point)      *)
(*                                                                         *)
(* A text is a sequence of characters.  A character is a one-element       *)
(* string ("-", " ", "\n", "#", ":" ...) or an opaque word that holds no   *)
(* whitespace, dash, colon or hash (a letter-like unit such as "a").       *)
(***************************************************************************)
EXTENDS Integers, Sequences, FiniteSets, TLC

(***************************************************************************)
(* Bounds of the model.                                                    *)
(***************************************************************************)
MaxLines == 5

(***************************************************************************)
(* Python string primitives, on character sequences.                       *)
(***************************************************************************)
NL == "\n"

\* str.isspace for one character
IsSpace(c) == c \in {" ", NL}

RECURSIVE LStrip(_)
\* str.lstrip()
LStrip(s) ==
    IF s = <<>> THEN <<>>
    ELSE IF IsSpace(Head(s)) THEN LStrip(Tail(s)) ELSE s

RECURSIVE RStrip(_)
\* str.rstrip()
RStrip(s) ==
    IF s = <<>> THEN <<>>
    ELSE IF IsSpace(s[Len(s)]) THEN RStrip(SubSeq(s, 1, Len(s) - 1)) ELSE s

\* str.strip()
Strip(s) == RStrip(LStrip(s))

RECURSIVE LStripHash(_)
\* str.lstrip('#')
LStripHash(s) ==
    IF s = <<>> THEN <<>>
    ELSE IF Head(s) = "#" THEN LStripHash(Tail(s)) ELSE s

\* str.startswith(p)
StartsWith(s, p) == Len(s) >= Len(p) /\ SubSeq(s, 1, Len(p)) = p

\* str.endswith(p)
EndsWith(s, p) == Len(s) >= Len(p) /\ SubSeq(s, Len(s) - Len(p) + 1, Len(s)) = p

RECURSIVE Join(_, _)
\* sep.join(parts)
Join(parts, sep) ==
    IF parts = <<>> THEN <<>>
    ELSE IF Len(parts) = 1 THEN parts[1]
    ELSE parts[1] \o sep \o Join(Tail(parts), sep)

\* the first place at which p occurs in s, 0 when there is none
Find(s, p) ==
    LET at == { i \in 1..(Len(s) - Len(p) + 1) : SubSeq(s, i, i + Len(p) - 1) = p }
    IN  IF at = {} THEN 0 ELSE CHOOSE i \in at : \A j \in at : i <= j

RECURSIVE Split(_, _)
\* str.split(p): the pieces between the leftmost non-overlapping
\* occurrences of p; always at least one piece
Split(s, p) ==
    LET i == Find(s, p)
    IN  IF i = 0 THEN <<s>>
        ELSE <<SubSeq(s, 1, i - 1)>> \o Split(SubSeq(s, i + Len(p), Len(s)), p)

\* str.splitlines(): no line for the empty text, and none after a final
\* line break
SplitLines(s) ==
    IF s = <<>> THEN <<>>
    ELSE LET raw == Split(s, <<NL>>)
         IN  IF raw[Len(raw)] = <<>> THEN SubSeq(raw, 1, Len(raw) - 1) ELSE raw

Dashes == <<"-", "-", "-">>

RECURSIVE SelectNonBlank(_)
\* [x.strip() for x in parts if x.strip()]
SelectNonBlank(parts) ==
    IF parts = <<>> THEN <<>>
    ELSE IF Strip(Head(parts)) = <<>> THEN SelectNonBlank(Tail(parts))
         ELSE <<Strip(Head(parts))>> \o SelectNonBlank(Tail(parts))

(***************************************************************************)
(* generate_story.py: _split_slides                                        *)
(***************************************************************************)
\* line.strip() == '---'
IsSeparatorLine(line) == Strip(line) = Dashes

\* the loop's variables before the first line
SplitStart ==
    [slides |-> <<>>, current_slide |-> <<>>,
     in_frontmatter |-> FALSE, frontmatter_done |-> FALSE]

\* SplitStep without the frontmatter states: every separator line flushes
SplitStepPlain(st, line) ==
    IF IsSeparatorLine(line)
    THEN IF st.current_slide # <<>>
         THEN [st EXCEPT !.slides = Append(@, Join(st.current_slide, <<NL>>)),
                         !.current_slide = <<>>]
         ELSE st
    ELSE [st EXCEPT !.current_slide = Append(@, line)]

\* one iteration of the for loop of _split_slides
SplitStep(st, line) ==
    IF IsSeparatorLine(line)
    THEN IF ~st.frontmatter_done
         THEN IF ~st.in_frontmatter
              THEN [st EXCEPT !.in_frontmatter = TRUE,
                              !.current_slide = Append(@, line)]
              ELSE [st EXCEPT !.in_frontmatter = FALSE,
                              !.frontmatter_done = TRUE,
                              !.slides = Append(@,
                                  Join(Append(st.current_slide, line), <<NL>>)),
                              !.current_slide = <<>>]
         ELSE IF st.current_slide # <<>>
              THEN [st EXCEPT !.slides = Append(@, Join(st.current_slide, <<NL>>)),
                              !.current_slide = <<>>]
              ELSE st
    ELSE [st EXCEPT !.current_slide = Append(@, line)]

RECURSIVE SplitLoop(_, _)
SplitLoop(st, lines) ==
    IF lines = <<>> THEN st
    ELSE SplitLoop(SplitStep(st, Head(lines)), Tail(lines))

\* _split_slides without the flush of the last slide (lines 134-135)
SplitSlidesNoFlush(marp_md) == SplitLoop(SplitStart, SplitLines(marp_md)).slides

\* _split_slides(marp_md)
SplitSlides(marp_md) ==
    LET st == SplitLoop(SplitStart, SplitLines(marp_md))
    IN  IF st.current_slide # <<>>
        THEN Append(st.slides, Join(st.current_slide, <<NL>>))
        ELSE st.slides

(***************************************************************************)
(* generate_html_story.py: the split of the generated text into slides     *)
(***************************************************************************)
\* lines 289-290
HtmlSplitSlides(text) == SelectNonBlank(Split(Strip(text), Dashes))

(***************************************************************************)
(* generate_story.py: _first_text_line, _write_svg,                        *)
(* embed_placeholders_and_images                                           *)
(***************************************************************************)
LabelMax == 40
PaletteLen == 5
Palette == <<"#FFEDD5", "#E0F2FE", "#ECFCCB", "#FCE7F3", "#FEF9C3">>

RECURSIVE FirstNonEmptyLabel(_)
FirstNonEmptyLabel(lines) ==
    IF lines = <<>> THEN <<>>
    ELSE LET s == Strip(LStripHash(Strip(Head(lines))))
         IN  IF s # <<>>
             THEN SubSeq(s, 1, IF Len(s) < LabelMax THEN Len(s) ELSE LabelMax)
             ELSE FirstNonEmptyLabel(Tail(lines))

\* _first_text_line(block)
FirstTextLine(block) == FirstNonEmptyLabel(SplitLines(block))

\* the file _write_svg(path, text, index) writes
WriteSvg(path, text, index) ==
    [path |-> path, text |-> text, bg |-> Palette[(index % PaletteLen) + 1]]

\* os.path.dirname of a relative path, a path being its components
DirName(path) == IF path = <<>> THEN <<>> ELSE SubSeq(path, 1, Len(path) - 1)

\* f'slide-{idx+1}.svg'
ImgName(n) == "slide-" \o ToString(n) \o ".svg"

\* f'![illustration](images/{img_name})', kept as one word
ImageRef(n) == <<"![illustration](images/" \o ImgName(n) \o ")">>

\* the slide the loop of embed_placeholders_and_images keeps for slides[i]
\* (i counts from 1: the code's idx is i - 1)
AugmentedSlide(slide, i) ==
    IF i = 1 THEN slide
    ELSE Strip(ImageRef(i) \o <<NL, NL>> \o slide)

\* embed_placeholders_and_images(marp_md, out_md_path): the text returned,
\* the slides it is made of and the SVG files written
EmbedPlaceholdersAndImages(marp_md, out_md_path) ==
    LET sl == SplitSlides(marp_md)
        images_dir == Append(DirName(out_md_path), "images")
        new_slides == [i \in 1..Len(sl) |-> AugmentedSlide(sl[i], i)]
        label(i) == IF FirstTextLine(sl[i]) # <<>> THEN FirstTextLine(sl[i])
                    ELSE <<"Slide", " ", ToString(i)>>
        svgs == { WriteSvg(Append(images_dir, ImgName(i)), label(i), i - 1) :
                      i \in 2..Len(sl) }
    IN  IF sl = <<>>
        THEN [doc |-> marp_md, slides |-> sl, new_slides |-> <<>>, svgs |-> {}]
        ELSE [doc |-> IF Len(new_slides) = 1
                      THEN new_slides[1] \o <<NL>>
                      ELSE new_slides[1] \o <<NL, NL>>
                           \o Join(Tail(new_slides), <<NL, "-", "-", "-", NL, NL>>)
                           \o <<NL>>,
              slides |-> sl, new_slides |-> new_slides, svgs |-> svgs]

(***************************************************************************)
(* generate_story.py: read_story_seed                                      *)
(*                                                                         *)
(* The label words are opaque words: "DAIMEI" and "ARASUJI" stand for the  *)
(* Japanese labels of lines 23 and 26, "title"/"synopsis" for the English  *)
(* ones, which the code matches in any letter case.                        *)
(***************************************************************************)
TitleLabelJp == <<"DAIMEI", ":">>
TitleLabelEn == <<"title", ":">>
SynopsisLabelJp == <<"ARASUJI", ":">>
SynopsisLabelEn == <<"synopsis", ":">>
DefaultSynopsis == <<"DEFAULT_SYNOPSIS">>

\* str.lower() of one character or word
LowerChar(c) ==
    CASE c = "Title" -> "title"
      [] c = "TITLE" -> "title"
      [] c = "Synopsis" -> "synopsis"
      [] c = "SYNOPSIS" -> "synopsis"
      [] OTHER -> c

\* str.lower()
Lower(s) == [i \in 1..Len(s) |-> LowerChar(s[i])]

RECURSIVE AfterFirstColon(_)
\* ln.split(':', 1)[1], for a line that holds a colon
AfterFirstColon(s) ==
    IF s = <<>> THEN <<>>
    ELSE IF Head(s) = ":" THEN Tail(s) ELSE AfterFirstColon(Tail(s))

\* the tests of lines 23 and 26
IsTitleLine(ln) == StartsWith(ln, TitleLabelJp) \/ StartsWith(Lower(ln), TitleLabelEn)
IsSynopsisLine(ln) ==
    StartsWith(ln, SynopsisLabelJp) \/ StartsWith(Lower(ln), SynopsisLabelEn)

\* title is None as <<>>, a title t as <<t>>
SeedStart == [title |-> <<>>, synopsis_lines |-> <<>>]

\* SeedStep with the title test of line 23 not guarded by "title is None"
SeedStepLastTitle(st, ln) ==
    IF Strip(ln) = <<>> THEN st
    ELSE IF IsTitleLine(ln)
         THEN [st EXCEPT !.title = <<Strip(AfterFirstColon(ln))>>]
    ELSE IF IsSynopsisLine(ln)
         THEN [st EXCEPT !.synopsis_lines = Append(@, Strip(AfterFirstColon(ln)))]
    ELSE IF st.title = <<>>
         THEN [st EXCEPT !.title = <<Strip(ln)>>]
         ELSE [st EXCEPT !.synopsis_lines = Append(@, ln)]

\* one iteration of the for loop of read_story_seed
SeedStep(st, ln) ==
    IF Strip(ln) = <<>> THEN st
    ELSE IF st.title = <<>> /\ IsTitleLine(ln)
         THEN [st EXCEPT !.title = <<Strip(AfterFirstColon(ln))>>]
    ELSE IF IsSynopsisLine(ln)
         THEN [st EXCEPT !.synopsis_lines = Append(@, Strip(AfterFirstColon(ln)))]
    ELSE IF st.title = <<>>
         THEN [st EXCEPT !.title = <<Strip(ln)>>]
         ELSE [st EXCEPT !.synopsis_lines = Append(@, ln)]

RECURSIVE SeedLoop(_, _)
SeedLoop(st, lines) ==
    IF lines = <<>> THEN st
    ELSE SeedLoop(SeedStep(st, Head(lines)), Tail(lines))

RECURSIVE KeepNonBlank(_)
\* [s for s in parts if s.strip()]
KeepNonBlank(parts) ==
    IF parts = <<>> THEN <<>>
    ELSE IF Strip(Head(parts)) = <<>> THEN KeepNonBlank(Tail(parts))
         ELSE <<Head(parts)>> \o KeepNonBlank(Tail(parts))

\* os.path.splitext(os.path.basename(path))[0] of the seed paths used here
PathStem(path) ==
    CASE path[Len(path)] = "seed.txt" -> <<"seed">>
      [] OTHER -> <<path[Len(path)]>>

\* read_story_seed(path), text being what the file at path holds
ReadStorySeed(text, path) ==
    LET st == SeedLoop(SeedStart, SplitLines(text))
        joined == Join(KeepNonBlank(st.synopsis_lines), <<NL>>)
    IN  [title |-> IF st.title = <<>> THEN PathStem(path) ELSE st.title[1],
         synopsis |-> IF joined = <<>> THEN DefaultSynopsis ELSE joined]

(***************************************************************************)
(* datetime.now(timezone.utc).strftime('%Y-%m-%d'), a date being a record  *)
(***************************************************************************)
Strftime(now) ==
    << ToString(now.year \div 1000), ToString((now.year \div 100) % 10),
       ToString((now.year \div 10) % 10), ToString(now.year % 10), "-",
       ToString(now.month \div 10), ToString(now.month % 10), "-",
       ToString(now.day \div 10), ToString(now.day % 10) >>

(***************************************************************************)
(* generate_story.py: build_marp_template.  The fixed Japanese headings    *)
(* and sentences are opaque words.                                         *)
(***************************************************************************)
BuildMarpTemplate(title, synopsis, now) ==
    Dashes \o <<NL>>
    \o <<"marp", ":", " ", "true", NL>>
    \o <<"title", ":", " ">> \o title \o <<NL>>
    \o <<"paginate", ":", " ", "true", NL>>
    \o <<"theme", ":", " ", "default", NL>>
    \o Dashes \o <<NL>>
    \o <<NL>>
    \o <<"#", " ">> \o title \o <<NL>>
    \o <<NL>>
    \o Dashes \o <<NL>>
    \o <<"#", " ", "HAJIMARI", NL>>
    \o <<NL>>
    \o synopsis \o <<NL>>
    \o <<NL>>
    \o Dashes \o <<NL>>
    \o <<"#", " ", "TSUDUKI", NL>>
    \o <<NL>>
    \o <<"-", " ", "DEKIGOTO1", NL>>
    \o <<"-", " ", "DEKIGOTO2", NL>>
    \o <<"-", " ", "DEKIGOTO3", NL>>
    \o <<NL>>
    \o Dashes \o <<NL>>
    \o <<"#", " ", "OWARINI", NL>>
    \o <<NL>>
    \o <<"ARIGATOU", NL>>
    \o <<"(">> \o Strftime(now) \o <<")", NL>>

(***************************************************************************)
(* generate_html_story.py: generate_html_slides, build_html_template, the  *)
(* seed parsing of main and build_html_slides_from_gemini.  The page is    *)
(* kept as its title, its slide containers (id and content) and the text   *)
(* of the total-slides counter; the stylesheet and the script are fixed.   *)
(***************************************************************************)
\* slide_content.replace('\n', '<br>')
ReplaceNewlines(s) == [i \in 1..Len(s) |-> IF s[i] = NL THEN "<br>" ELSE s[i]]

RECURSIVE SlideContainers(_, _)
\* the loop of generate_html_slides, i being the number of the next slide
SlideContainers(slide_list, i) ==
    IF slide_list = <<>> THEN <<>>
    ELSE IF Strip(Head(slide_list)) = <<>>
         THEN SlideContainers(Tail(slide_list), i + 1)
         ELSE <<[id |-> i, content |-> ReplaceNewlines(Strip(Head(slide_list)))]>>
              \o SlideContainers(Tail(slide_list), i + 1)

\* generate_html_slides(title, slides)
GenerateHtmlSlides(title, slide_list) ==
    [title |-> title,
     containers |-> SlideContainers(slide_list, 1),
     total_slides |-> Len(slide_list)]

\* the slides list of build_html_template; the last entry is no f-string
HtmlTemplateSlides(title, synopsis, now) ==
    << <<"#", " ">> \o title,
       <<"#", " ", "HAJIMARI", NL, NL>> \o synopsis,
       <<"#", " ", "TSUDUKI", NL, NL,
         "-", " ", "DEKIGOTO1", NL, "-", " ", "DEKIGOTO2", NL, "-", " ", "DEKIGOTO3">>,
       <<"#", " ", "OWARINI", NL, NL, "ARIGATOU", NL, "(", "{", "now", "}", ")">> >>

\* build_html_template(title, synopsis)
BuildHtmlTemplate(title, synopsis, now) ==
    GenerateHtmlSlides(title, HtmlTemplateSlides(title, synopsis, now))

RECURSIVE RemoveAll(_, _)
\* s.replace(pat, '')
RemoveAll(s, pat) ==
    IF s = <<>> THEN <<>>
    ELSE IF StartsWith(s, pat) THEN RemoveAll(SubSeq(s, Len(pat) + 1, Len(s)), pat)
         ELSE <<Head(s)>> \o RemoveAll(Tail(s), pat)

SampleTitle == <<"SAMPLE_STORY">>

\* lines 324-332 of main: the title and synopsis of the seed text
ParseHtmlSeed(text) ==
    LET content == Strip(text)
        lines == Split(content, <<NL>>)
    IN  [title |-> IF StartsWith(lines[1], TitleLabelJp)
                   THEN Strip(RemoveAll(lines[1], TitleLabelJp))
                   ELSE SampleTitle,
         synopsis |-> IF Len(lines) > 1
                      THEN Strip(RemoveAll(Join(Tail(lines), <<NL>>), SynopsisLabelJp))
                      ELSE content]

\* "BACKTICK" is the backquote character
FenceMarkdown == <<"BACKTICK", "BACKTICK", "BACKTICK", "markdown">>
Fence == <<"BACKTICK", "BACKTICK", "BACKTICK">>

\* lines 281-286: the code block markers removed
RemoveFences(text) ==
    LET a == IF StartsWith(text, FenceMarkdown)
             THEN SubSeq(text, Len(FenceMarkdown) + 1, Len(text)) ELSE text
        b == IF StartsWith(a, Fence) THEN SubSeq(a, Len(Fence) + 1, Len(a)) ELSE a
    IN  IF EndsWith(b, Fence) THEN SubSeq(b, 1, Len(b) - Len(Fence)) ELSE b

\* build_html_slides_from_gemini, from the response text on
HtmlFromResponse(title, text) ==
    GenerateHtmlSlides(title, HtmlSplitSlides(RemoveFences(text)))

(***************************************************************************)
(* The external generator.  A response is what the call does: the import   *)
(* of the client library fails ("import_error"), generate_content raises   *)
(* ("api_error"), the result holds no text ("none"), an empty text         *)
(* ("empty") or a text ("text").                                           *)
(***************************************************************************)
\* GeminiRaises without the check of an empty text
GeminiRaisesOnErrorOnly(response) == response.kind \in {"import_error", "api_error"}

\* lines 270-273 (HTML) and 66-69 (Markdown): the import or the call raises,
\* or "if not text: raise RuntimeError"
GeminiRaises(response) ==
    \/ response.kind \in {"import_error", "api_error"}
    \/ response.kind \in {"none", "empty"}
    \/ response.kind = "text" /\ response.text = <<>>

\* build_html_slides_from_gemini(title, synopsis, api_key)
BuildHtmlSlidesFromGemini(title, synopsis, response) ==
    IF GeminiRaises(response)
    THEN [raised |-> TRUE, page |-> [title |-> <<>>, containers |-> <<>>, total_slides |-> 0]]
    ELSE [raised |-> FALSE, page |-> HtmlFromResponse(title, response.text)]

\* build_marp_from_gemini(title, synopsis, model_name, api_key)
BuildMarpFromGemini(title, synopsis, response) ==
    IF GeminiRaises(response)
    THEN [raised |-> TRUE, text |-> <<>>]
    ELSE [raised |-> FALSE, text |-> response.text]

\* the directories os.makedirs(path, exist_ok=True) leaves, for a path that
\* is not empty (Path.mkdir(parents=True, exist_ok=True) likewise)
MakeDirs(path, existing) ==
    existing \cup { SubSeq(path, 1, n) : n \in 1..Len(path) }

(***************************************************************************)
(* State.                                                                  *)
(***************************************************************************)
VARIABLES
    pc,           \* the step the run is at
    md,           \* the Markdown (or generated) text being worked on
    slides,       \* the slides a splitter returned
    newSlides,    \* the slides after embed_placeholders_and_images
    doc,          \* the text embed_placeholders_and_images returned
    images,       \* the SVG files written
    seed,         \* the text of the seed file
    clock,        \* the UTC date the system clock shows
    title,        \* the title parsed from the seed
    synopsis,     \* the synopsis parsed from the seed
    html,         \* the HTML page built
    mode,         \* the entry point run: "html" or "md"
    inputExists,  \* whether the file at --input exists
    outPath,      \* --out, as path components
    cliKey,       \* whether --api-key is given
    envKey,       \* whether GEMINI_API_KEY is set
    response,     \* what the call of the external generator does
    dirs,         \* the directories that exist
    outFile,      \* what is written at --out: <<>> or <<content>>
    stderr,       \* the lines printed to stderr, by kind
    stdout,       \* the lines printed to stdout, by kind
    exitCode,     \* the exit code, -1 while the process runs
    currentSlide, \* the script's currentSlide
    active,       \* the slides (0-based) that carry the class active
    counterText,  \* the text of #current-slide
    prevDisabled, \* #prev-btn is disabled
    nextDisabled, \* #next-btn is disabled
    lastEvent     \* the last event the page handled

textVars == <<md, slides, newSlides, doc, images>>
seedVars == <<seed, clock, title, synopsis, html>>
runVars == <<mode, inputExists, outPath, cliKey, envKey, response, dirs, outFile,
             stderr, stdout, exitCode>>
navVars == <<currentSlide, active, counterText, prevDisabled, nextDisabled, lastEvent>>
vars == <<pc, textVars, seedVars, runVars, navVars>>

NoPage == [title |-> <<>>, containers |-> <<>>, total_slides |-> 0]
NoResponse == [kind |-> "unused", text |-> <<>>]
Epoch == [year |-> 1970, month |-> 1, day |-> 1]

\* the parts of the state a specification does not use
IdleText ==
    md = <<>> /\ slides = <<>> /\ newSlides = <<>> /\ doc = <<>> /\ images = {}
IdleSeed ==
    seed = <<>> /\ clock = Epoch /\ title = <<>> /\ synopsis = <<>> /\ html = NoPage
IdleRun ==
    /\ mode = "none" /\ inputExists = TRUE /\ outPath = <<>>
    /\ cliKey = FALSE /\ envKey = FALSE /\ response = NoResponse
    /\ dirs = {} /\ outFile = <<>> /\ stderr = <<>> /\ stdout = <<>> /\ exitCode = -1
IdleNav ==
    /\ currentSlide = 0 /\ active = {} /\ counterText = 1
    /\ prevDisabled = FALSE /\ nextDisabled = FALSE /\ lastEvent = "none"

RECURSIVE SeqsUpTo(_, _)
\* the sequences over S of length at most n
SeqsUpTo(S, n) ==
    IF n = 0 THEN {<<>>}
    ELSE LET shorter == SeqsUpTo(S, n - 1)
         IN  shorter \cup { Append(q, x) : q \in { r \in shorter : Len(r) = n - 1 }, x \in S }

\* the texts of at most n lines over the lines of S, with or without a
\* final line break
TextsOf(S, n) ==
    { Join(lines, <<NL>>) \o tail : lines \in SeqsUpTo(S, n), tail \in {<<>>, <<NL>>} }

(***************************************************************************)
(* SpecSplit: the splitters and the image embedding on bounded texts.      *)
(***************************************************************************)
SplitLineSet ==
    { Dashes, <<" ", "-", "-", "-">>, <<>>, <<"#", "a">>, <<"b", "-">> }

SplitOutPath == <<"slides", "story.md">>

InitSplit ==
    /\ md \in TextsOf(SplitLineSet, MaxLines)
    /\ pc = "input"
    /\ slides = <<>> /\ newSlides = <<>> /\ doc = <<>> /\ images = {}
    /\ IdleSeed /\ IdleRun /\ IdleNav

DoSplitSlides ==
    /\ pc = "input"
    /\ pc' = "split_md"
    /\ slides' = SplitSlides(md)
    /\ UNCHANGED <<md, newSlides, doc, images, seedVars, runVars, navVars>>

DoHtmlSplit ==
    /\ pc = "input"
    /\ pc' = "split_html"
    /\ slides' = HtmlSplitSlides(md)
    /\ UNCHANGED <<md, newSlides, doc, images, seedVars, runVars, navVars>>

DoEmbed ==
    /\ pc = "input"
    /\ pc' = "embedded"
    /\ LET r == EmbedPlaceholdersAndImages(md, SplitOutPath)
       IN  /\ slides' = r.slides
           /\ newSlides' = r.new_slides
           /\ doc' = r.doc
           /\ images' = r.svgs
    /\ UNCHANGED <<md, seedVars, runVars, navVars>>

NextSplit == DoSplitSlides \/ DoHtmlSplit \/ DoEmbed

SpecSplit == InitSplit /\ [][NextSplit]_vars

(***************************************************************************)
(* SpecSeed: the seed parsing and the Template Renderer on bounded seed    *)
(* files, in both modes.                                                   *)
(***************************************************************************)
MaxSeedLines == 3

SeedLineSet ==
    { <<"DAIMEI", ":", " ", "x">>,
      <<"Title", ":", "y", " ">>,
      <<"ARASUJI", ":", " ", "s", " ">>,
      <<"synopsis", ":", "u">>,
      <<"c">>,
      <<>>,
      Dashes }

SeedPath == <<"input", "seed.txt">>

Dates == { [year |-> 2024, month |-> 2, day |-> 29],
           [year |-> 2026, month |-> 11, day |-> 6] }

InitSeed ==
    /\ seed \in TextsOf(SeedLineSet, MaxSeedLines)
    /\ clock \in Dates
    /\ pc = "seed"
    /\ title = <<>> /\ synopsis = <<>> /\ html = NoPage
    /\ IdleText /\ IdleRun /\ IdleNav

\* seed = read_story_seed(args.input)
SeedRead ==
    /\ pc = "seed"
    /\ pc' = "parsed_md"
    /\ LET r == ReadStorySeed(seed, SeedPath)
       IN  title' = r.title /\ synopsis' = r.synopsis
    /\ UNCHANGED <<seed, clock, html, textVars, runVars, navVars>>

\* the seed parsing of the HTML entry point
SeedParseHtml ==
    /\ pc = "seed"
    /\ pc' = "parsed_html"
    /\ LET r == ParseHtmlSeed(seed)
       IN  title' = r.title /\ synopsis' = r.synopsis
    /\ UNCHANGED <<seed, clock, html, textVars, runVars, navVars>>

\* content = build_marp_template(title, synopsis)
SeedMarpTemplate ==
    /\ pc = "parsed_md"
    /\ pc' = "template_md"
    /\ md' = BuildMarpTemplate(title, synopsis, clock)
    /\ UNCHANGED <<slides, newSlides, doc, images, seedVars, runVars, navVars>>

\* html_content = build_html_template(title, synopsis)
SeedHtmlTemplate ==
    /\ pc = "parsed_html"
    /\ pc' = "template_html"
    /\ html' = BuildHtmlTemplate(title, synopsis, clock)
    /\ UNCHANGED <<seed, clock, title, synopsis, textVars, runVars, navVars>>

\* slides = _split_slides(marp_md), on the template
SeedSplitTemplate ==
    /\ pc = "template_md"
    /\ pc' = "template_split"
    /\ slides' = SplitSlides(md)
    /\ UNCHANGED <<md, newSlides, doc, images, seedVars, runVars, navVars>>

NextSeed ==
    SeedRead \/ SeedParseHtml \/ SeedMarpTemplate \/ SeedHtmlTemplate \/ SeedSplitTemplate

SpecSeed == InitSeed /\ [][NextSeed]_vars

(***************************************************************************)
(* SpecMain: one run of either entry point, from the command line to the   *)
(* exit code.                                                              *)
(***************************************************************************)
MaxMainSeedLines == 2

MainSeedLineSet ==
    { <<"DAIMEI", ":", " ", "x">>, <<"ARASUJI", ":", " ", "s">>, <<"c">> }

OutPaths ==
    { <<"story.out">>, <<"slides", "story.out">>, <<"new", "deep", "story.out">> }

ResponseTexts ==
    { <<"t", NL, "-", "-", "-", NL, "a", NL, "-", "-", "-", NL, "b">>,
      <<"BACKTICK", "BACKTICK", "BACKTICK", "markdown", NL, "t", NL, "-", "-", "-", NL,
        "a", NL, "BACKTICK", "BACKTICK", "BACKTICK">>,
      <<"-", "-", "-", NL, "marp", ":", " ", "true", NL, "-", "-", "-", NL, NL,
        "#", " ", "t", NL, NL, "-", "-", "-", NL, "a", NL>>,
      <<" ", NL>> }

Responses ==
    { [kind |-> k, text |-> <<>>] : k \in {"import_error", "api_error", "none", "empty"} }
    \cup { [kind |-> "text", text |-> t] : t \in ResponseTexts }

InitMain ==
    /\ mode \in {"html", "md"}
    /\ inputExists \in BOOLEAN
    /\ seed \in IF inputExists THEN TextsOf(MainSeedLineSet, MaxMainSeedLines) ELSE {<<>>}
    /\ outPath \in OutPaths
    /\ cliKey \in IF mode = "html" THEN BOOLEAN ELSE {FALSE}
    /\ envKey \in BOOLEAN
    /\ response \in IF cliKey \/ envKey THEN Responses ELSE {NoResponse}
    /\ clock \in Dates
    /\ dirs = {<<"slides">>}
    /\ outFile = <<>> /\ stderr = <<>> /\ stdout = <<>> /\ exitCode = -1
    /\ pc = "start"
    /\ title = <<>> /\ synopsis = <<>> /\ html = NoPage
    /\ IdleText /\ IdleNav

\* an exception no handler catches: the traceback is printed, the exit code is 1
Uncaught(exception) ==
    /\ stderr' = Append(stderr, "Traceback: " \o exception)
    /\ exitCode' = 1
    /\ pc' = "done"

\* ---- generate_html_story.py: main ----

\* lines 321-335
HtmlReadInput ==
    /\ mode = "html" /\ pc = "start"
    /\ IF ~inputExists
       THEN /\ stderr' = Append(stderr, "Error: Input file not found")
            /\ exitCode' = 1
            /\ pc' = "done"
            /\ UNCHANGED <<title, synopsis>>
       ELSE /\ LET r == ParseHtmlSeed(seed)
               IN  title' = r.title /\ synopsis' = r.synopsis
            /\ stderr' = stderr \o <<"[INFO] Title", "[INFO] Synopsis">>
            /\ pc' = "generate"
            /\ UNCHANGED exitCode
    /\ UNCHANGED <<seed, clock, html, textVars, navVars, mode, inputExists, outPath,
                   cliKey, envKey, response, dirs, outFile, stdout>>

\* lines 338-350
HtmlGenerate ==
    /\ mode = "html" /\ pc = "generate"
    /\ IF cliKey \/ envKey
       THEN LET r == BuildHtmlSlidesFromGemini(title, synopsis, response)
            IN  IF r.raised
                THEN /\ stderr' = stderr \o <<"[INFO] Using Gemini API",
                                             "[WARN] Gemini generation failed">>
                     /\ html' = BuildHtmlTemplate(title, synopsis, clock)
                ELSE /\ stderr' = stderr \o <<"[INFO] Using Gemini API", "[DEBUG]",
                                             "[INFO] Gemini generation successful">>
                     /\ html' = r.page
       ELSE /\ stderr' = Append(stderr, "[INFO] No API key provided")
            /\ html' = BuildHtmlTemplate(title, synopsis, clock)
    /\ pc' = "write"
    /\ UNCHANGED <<seed, clock, title, synopsis, textVars, navVars, mode, inputExists,
                   outPath, cliKey, envKey, response, dirs, outFile, stdout, exitCode>>

\* lines 352-359
HtmlWrite ==
    /\ mode = "html" /\ pc = "write"
    /\ dirs' = MakeDirs(DirName(outPath), dirs)
    /\ outFile' = <<html>>
    /\ stderr' = Append(stderr, "Wrote HTML slides")
    /\ exitCode' = 0
    /\ pc' = "done"
    /\ UNCHANGED <<seedVars, textVars, navVars, mode, inputExists, outPath, cliKey,
                   envKey, response, stdout>>

\* ---- generate_story.py: main ----

\* lines 210-212: open() raises FileNotFoundError, which nothing catches
MdReadSeed ==
    /\ mode = "md" /\ pc = "start"
    /\ IF ~inputExists
       THEN /\ Uncaught("FileNotFoundError")
            /\ UNCHANGED <<title, synopsis>>
       ELSE /\ LET r == ReadStorySeed(seed, SeedPath)
               IN  title' = r.title /\ synopsis' = r.synopsis
            /\ pc' = "mkdirs"
            /\ UNCHANGED <<stderr, exitCode>>
    /\ UNCHANGED <<seed, clock, html, textVars, navVars, mode, inputExists, outPath,
                   cliKey, envKey, response, dirs, outFile, stdout>>

\* line 214: os.makedirs('') raises FileNotFoundError
MdMakeDirs ==
    /\ mode = "md" /\ pc = "mkdirs"
    /\ IF DirName(outPath) = <<>>
       THEN /\ Uncaught("FileNotFoundError")
            /\ UNCHANGED dirs
       ELSE /\ dirs' = MakeDirs(DirName(outPath), dirs)
            /\ pc' = "generate"
            /\ UNCHANGED <<stderr, exitCode>>
    /\ UNCHANGED <<seedVars, textVars, navVars, mode, inputExists, outPath, cliKey,
                   envKey, response, outFile, stdout>>

\* lines 216-231: content is None as <<>>
MdGenerate ==
    /\ mode = "md" /\ pc = "generate"
    /\ LET content ==
               IF envKey /\ ~BuildMarpFromGemini(title, synopsis, response).raised
               THEN BuildMarpFromGemini(title, synopsis, response).text
               ELSE <<>>
       IN  /\ stderr' =
                 IF ~envKey THEN Append(stderr, "[INFO] GEMINI_API_KEY not set")
                 ELSE IF BuildMarpFromGemini(title, synopsis, response).raised
                 THEN stderr \o <<"[INFO] Using Gemini API",
                                  "[WARN] Gemini generation failed", "Traceback (printed)">>
                 ELSE stderr \o <<"[INFO] Using Gemini API",
                                  "[INFO] Gemini generation successful">>
           /\ md' = IF content = <<>> THEN BuildMarpTemplate(title, synopsis, clock)
                    ELSE content
    /\ pc' = "embed"
    /\ UNCHANGED <<seedVars, slides, newSlides, doc, images, navVars, mode, inputExists,
                   outPath, cliKey, envKey, response, dirs, outFile, stdout, exitCode>>

\* line 234; _write_svg makes the images directory before each file
MdEmbed ==
    /\ mode = "md" /\ pc = "embed"
    /\ LET r == EmbedPlaceholdersAndImages(md, outPath)
       IN  /\ slides' = r.slides
           /\ newSlides' = r.new_slides
           /\ doc' = r.doc
           /\ images' = r.svgs
           /\ dirs' = IF r.svgs = {} THEN dirs
                      ELSE MakeDirs(Append(DirName(outPath), "images"), dirs)
    /\ pc' = "write"
    /\ UNCHANGED <<md, seedVars, navVars, mode, inputExists, outPath, cliKey, envKey,
                   response, outFile, stderr, stdout, exitCode>>

\* lines 236-238
MdWrite ==
    /\ mode = "md" /\ pc = "write"
    /\ outFile' = <<doc>>
    /\ stdout' = Append(stdout, "Wrote Marp Markdown")
    /\ exitCode' = 0
    /\ pc' = "done"
    /\ UNCHANGED <<seedVars, textVars, navVars, mode, inputExists, outPath, cliKey,
                   envKey, response, dirs, stderr>>

NextMain ==
    \/ HtmlReadInput \/ HtmlGenerate \/ HtmlWrite
    \/ MdReadSeed \/ MdMakeDirs \/ MdGenerate \/ MdEmbed \/ MdWrite

SpecMain == InitMain /\ [][NextMain]_vars

(***************************************************************************)
(* SpecNav: the script of the generated page (lines 197-226), on the page  *)
(* generate_html_slides builds from a bounded list of slides.              *)
(***************************************************************************)
MaxDeck == 4

DeckSlideSet == { <<"a">>, <<"b", NL, "c">>, <<" ">> }

\* slides.length: document.querySelectorAll('.slide')
TotalSlides == Len(html.containers)

InitNav ==
    /\ \E deck \in SeqsUpTo(DeckSlideSet, MaxDeck) :
          html = GenerateHtmlSlides(<<"t">>, deck)
    /\ pc = "loading"
    /\ currentSlide = 0 /\ active = {} /\ counterText = 1
    /\ prevDisabled = FALSE /\ nextDisabled = FALSE /\ lastEvent = "none"
    /\ seed = <<>> /\ clock = Epoch /\ title = <<>> /\ synopsis = <<>>
    /\ IdleText /\ IdleRun

\* showSlide without its first statement: the class of the slide shown before
\* is not removed
ShowSlideKeepActive(n) ==
    IF TotalSlides = 0
    THEN UNCHANGED <<currentSlide, active, counterText, prevDisabled, nextDisabled>>
    ELSE LET shown == (n + TotalSlides) % TotalSlides
         IN  /\ currentSlide' = shown
             /\ active' = active \cup {shown}
             /\ counterText' = shown + 1
             /\ prevDisabled' = (shown = 0)
             /\ nextDisabled' = (shown = TotalSlides - 1)

\* showSlide(n): with no slide, slides[currentSlide] is undefined and the
\* first statement throws a TypeError, which leaves the page as it is
ShowSlide(n) ==
    IF TotalSlides = 0
    THEN UNCHANGED <<currentSlide, active, counterText, prevDisabled, nextDisabled>>
    ELSE LET shown == (n + TotalSlides) % TotalSlides
         IN  /\ currentSlide' = shown
             /\ active' = (active \ {currentSlide}) \cup {shown}
             /\ counterText' = shown + 1
             /\ prevDisabled' = (shown = 0)
             /\ nextDisabled' = (shown = TotalSlides - 1)

\* changeSlide(direction)
ChangeSlide(direction) == ShowSlide(currentSlide + direction)

\* the script runs once, when the page loads: showSlide(0)
LoadPage ==
    /\ pc = "loading"
    /\ pc' = IF TotalSlides = 0 THEN "script_error" ELSE "ready"
    /\ ShowSlide(0)
    /\ lastEvent' = "load"
    /\ UNCHANGED <<seedVars, textVars, runVars>>

\* a click on #prev-btn; a disabled button fires no click
ClickPrev ==
    /\ pc # "loading" /\ ~prevDisabled
    /\ ChangeSlide(-1)
    /\ lastEvent' = "prev-btn"
    /\ UNCHANGED <<pc, seedVars, textVars, runVars>>

\* a click on #next-btn
ClickNext ==
    /\ pc # "loading" /\ ~nextDisabled
    /\ ChangeSlide(1)
    /\ lastEvent' = "next-btn"
    /\ UNCHANGED <<pc, seedVars, textVars, runVars>>

\* keydown with e.key === 'ArrowLeft'
KeyArrowLeft ==
    /\ pc # "loading"
    /\ ChangeSlide(-1)
    /\ lastEvent' = "ArrowLeft"
    /\ UNCHANGED <<pc, seedVars, textVars, runVars>>

\* keydown with e.key === 'ArrowRight'
KeyArrowRight ==
    /\ pc # "loading"
    /\ ChangeSlide(1)
    /\ lastEvent' = "ArrowRight"
    /\ UNCHANGED <<pc, seedVars, textVars, runVars>>

NextNav == LoadPage \/ ClickPrev \/ ClickNext \/ KeyArrowLeft \/ KeyArrowRight

SpecNav == InitNav /\ [][NextNav]_vars

(***************************************************************************)
(* The shape of a Markdown document, read off its lines by position (the   *)
(* claims' own reading of "frontmatter", "separator" and "block").         *)
(***************************************************************************)
MdLines == SplitLines(md)

\* the positions of the separator lines among lines[from..Len(lines)]
SepPositions(lines, from) ==
    { i \in from..Len(lines) : IsSeparatorLine(lines[i]) }

Min(S) == CHOOSE x \in S : \A y \in S : x <= y

\* lines[from..] is empty, or is blocks of at least one line each with one
\* separator line between neighbouring blocks
WellSeparated(lines, from) ==
    from <= Len(lines) =>
        /\ ~IsSeparatorLine(lines[from])
        /\ ~IsSeparatorLine(lines[Len(lines)])
        /\ \A i \in from..(Len(lines) - 1) :
              ~(IsSeparatorLine(lines[i]) /\ IsSeparatorLine(lines[i + 1]))

\* the number of blocks of a well separated lines[from..]
BlockCount(lines, from) ==
    IF from > Len(lines) THEN 0 ELSE Cardinality(SepPositions(lines, from)) + 1

\* the k-th block of a well separated lines[from..], as a text
Block(lines, from, k) ==
    LET seps == SepPositions(lines, from)
        before == { i \in seps : Cardinality({ j \in seps : j <= i }) = k - 1 }
        after == { i \in seps : Cardinality({ j \in seps : j <= i }) = k }
        first == IF k = 1 THEN from ELSE Min(before) + 1
        last == IF after = {} THEN Len(lines) ELSE Min(after) - 1
    IN  Join(SubSeq(lines, first, last), <<NL>>)

\* the document opens with a separator line and holds a second one
HasFrontmatter(lines) ==
    /\ Len(lines) >= 2
    /\ IsSeparatorLine(lines[1])
    /\ SepPositions(lines, 2) # {}

\* the line that closes the frontmatter
FrontmatterEnd(lines) == Min(SepPositions(lines, 2))

\* a frontmatter block followed by N >= 0 content slides
FrontmatterDoc(lines) ==
    /\ HasFrontmatter(lines)
    /\ WellSeparated(lines, FrontmatterEnd(lines) + 1)

\* every block of a well separated lines[from..] holds some text
NonBlankBlocks(lines, from) ==
    \A k \in 1..BlockCount(lines, from) : Strip(Block(lines, from, k)) # <<>>

\* no frontmatter: the text does not begin with a separator line and is
\* non-empty blocks with one separator line between neighbours
PlainDoc(lines) ==
    /\ lines # <<>>
    /\ WellSeparated(lines, 1)
    /\ NonBlankBlocks(lines, 1)

\* a text holds a separator line
HasSeparatorLine(text) == SepPositions(SplitLines(text), 1) # {}

(***************************************************************************)
(* C3: a frontmatter block followed by N >= 0 content slides separated by  *)
(* --- lines splits into exactly N+1 segments in input order, segment 0    *)
(* being the frontmatter block with both of its delimiter lines.           *)
(***************************************************************************)
C3_FrontmatterSegments ==
    (pc = "split_md" /\ FrontmatterDoc(MdLines)) =>
        LET e == FrontmatterEnd(MdLines)
            n == BlockCount(MdLines, e + 1)
        IN  /\ Len(slides) = n + 1
            /\ slides[1] = Join(SubSeq(MdLines, 1, e), <<NL>>)
            /\ \A k \in 1..n : slides[k + 1] = Block(MdLines, e + 1, k)

C3_Witness ==
    /\ pc = "split_md"
    /\ FrontmatterDoc(MdLines)
    /\ BlockCount(MdLines, FrontmatterEnd(MdLines) + 1) >= 2
    /\ Len(slides) >= 3

(***************************************************************************)
(* C9: without frontmatter every --- line is a plain separator: k          *)
(* separator lines between k+1 non-empty blocks give exactly k+1 slides,   *)
(* none holding a --- line (one slide when there is no --- line).          *)
(***************************************************************************)
C9_PlainSeparators ==
    (pc = "split_md" /\ PlainDoc(MdLines)) =>
        /\ Len(slides) = BlockCount(MdLines, 1)
        /\ \A i \in 1..Len(slides) : ~HasSeparatorLine(slides[i])

(***************************************************************************)
(* C10: every slide except the very first title slide gets an image        *)
(* reference prepended and one SVG file under images/; the frontmatter and *)
(* the title slide are kept as they are, with no image.                    *)
(***************************************************************************)
\* the segment that holds the title slide: the one after the frontmatter
TitleSegment(lines) == IF HasFrontmatter(lines) THEN 2 ELSE 1

SvgPath(i) == Append(Append(DirName(SplitOutPath), "images"), ImgName(i))

C10_ImagesExceptTitle ==
    (pc = "embedded" /\ (FrontmatterDoc(MdLines) \/ PlainDoc(MdLines))) =>
        \A i \in 1..Len(slides) :
            IF i <= TitleSegment(MdLines)
            THEN /\ newSlides[i] = slides[i]
                 /\ ~\E f \in images : f.path = SvgPath(i)
            ELSE /\ StartsWith(newSlides[i], ImageRef(i))
                 /\ Cardinality({ f \in images : f.path = SvgPath(i) }) = 1

(***************************************************************************)
(* C8: joining the slides a splitter returned with the --- delimiter gives *)
(* a text equivalent to the input up to whitespace trimming.               *)
(***************************************************************************)
DelimiterLine == <<NL, "-", "-", "-", NL>>

Rejoined == Join(slides, DelimiterLine)

\* a text up to whitespace trimming: its lines trimmed, the blank ones left out
TrimmedLines(text) == SelectNonBlank(SplitLines(text))

RECURSIVE Without(_, _)
Without(s, drop) ==
    IF s = <<>> THEN <<>>
    ELSE IF Head(s) \in drop THEN Without(Tail(s), drop)
         ELSE <<Head(s)>> \o Without(Tail(s), drop)

RECURSIVE ContentLines(_)
\* the trimmed lines that are neither blank nor a separator line
ContentLines(lines) ==
    IF lines = <<>> THEN <<>>
    ELSE IF Strip(Head(lines)) = <<>> \/ IsSeparatorLine(Head(lines))
         THEN ContentLines(Tail(lines))
         ELSE <<Strip(Head(lines))>> \o ContentLines(Tail(lines))

\* the claim as written, on the documents that are made of a frontmatter
\* block (or none) and non-empty slides
C8_RoundTrip ==
    (/\ pc \in {"split_md", "split_html"}
     /\ \/ PlainDoc(MdLines)
        \/ /\ FrontmatterDoc(MdLines)
           /\ BlockCount(MdLines, FrontmatterEnd(MdLines) + 1) >= 1
           /\ NonBlankBlocks(MdLines, FrontmatterEnd(MdLines) + 1))
        => TrimmedLines(Rejoined) = TrimmedLines(md)

\* C8 as amended: the joined text splits into the same non-blank slides
\* again and holds the input's content in the input's order (Markdown: the
\* trimmed non-blank lines other than separator lines; HTML: the characters
\* other than whitespace and dashes); separator lines are not reproduced.
C8_ContentPreserved ==
    /\ pc = "split_md" =>
          /\ SelectNonBlank(SplitSlides(Rejoined)) = SelectNonBlank(slides)
          /\ ContentLines(SplitLines(Rejoined)) = ContentLines(MdLines)
    /\ pc = "split_html" =>
          /\ HtmlSplitSlides(Rejoined) = slides
          /\ Without(Rejoined, {" ", NL, "-"}) = Without(md, {" ", NL, "-"})

C8_Witness ==
    /\ pc = "split_md"
    /\ FrontmatterDoc(MdLines)
    /\ Len(slides) >= 3
    /\ TrimmedLines(Rejoined) # TrimmedLines(md)

(***************************************************************************)
(* The shape of a seed file, read off its lines by position.               *)
(***************************************************************************)
SeedLines == SplitLines(seed)

NonBlankLines == { i \in 1..Len(SeedLines) : Strip(SeedLines[i]) # <<>> }
TitleLines == { i \in NonBlankLines : IsTitleLine(SeedLines[i]) }
SynopsisLines == { i \in NonBlankLines : IsSynopsisLine(SeedLines[i]) }

\* the file holds a title-labelled line and a synopsis-labelled line
HasBothLabels == TitleLines # {} /\ SynopsisLines # {}

\* the text after the label of line i, trimmed
Labelled(i) == Strip(AfterFirstColon(SeedLines[i]))

\* the entries that hold some text, in order
WithText(entries) == SelectSeq(entries, LAMBDA e : Strip(e) # <<>>)

SynopsisText(entries) ==
    IF entries = <<>> THEN DefaultSynopsis ELSE Join(entries, <<NL>>)

(***************************************************************************)
(* C7: for every seed file with a title-labelled and a synopsis-labelled   *)
(* line, wherever they stand, the title is the trimmed remainder of the    *)
(* first title-labelled line and the synopsis is the trimmed labelled      *)
(* synopsis text; the title-labelled line never becomes synopsis.          *)
(***************************************************************************)
\* the claim as written
C7_LabelledSeed ==
    (pc = "parsed_md" /\ HasBothLabels) =>
        LET onlyLabelled == [i \in 1..Len(SeedLines) |->
                                IF i \in SynopsisLines THEN Labelled(i) ELSE <<>>]
        IN  /\ title = Labelled(Min(TitleLines))
            /\ synopsis = SynopsisText(WithText(onlyLabelled))

\* C7 as amended: the title comes from the first non-blank line that is not
\* synopsis-labelled: the trimmed remainder of the first title-labelled
\* line when that is the one, else that unlabelled line trimmed (and the
\* title-labelled line then goes to the synopsis as it is).  The synopsis
\* is, in file order and joined by line breaks, the trimmed remainder of
\* every synopsis-labelled line and every other non-blank line but the
\* title's as it is, blank entries left out, or the default sentence.
C7_SeedReader ==
    (pc = "parsed_md" /\ HasBothLabels) =>
        LET t == Min(NonBlankLines \ SynopsisLines)
            entry == [i \in 1..Len(SeedLines) |->
                         IF i \in SynopsisLines THEN Labelled(i)
                         ELSE IF i = t THEN <<>> ELSE SeedLines[i]]
        IN  /\ title = IF t \in TitleLines THEN Labelled(t) ELSE Strip(SeedLines[t])
            /\ t = Min(TitleLines) => title = Labelled(Min(TitleLines))
            /\ synopsis = SynopsisText(WithText(entry))

C7_Witness ==
    /\ pc = "parsed_md"
    /\ HasBothLabels
    /\ Cardinality(NonBlankLines) >= 3
    /\ Min(NonBlankLines \ SynopsisLines) = Min(TitleLines)
    /\ Min(SynopsisLines) < Min(TitleLines)
    /\ title = Labelled(Min(TitleLines))

(***************************************************************************)
(* C5: for every title and synopsis the seed parsing can produce, the      *)
(* Template Renderer's output has exactly 4 slides: 4 slide containers in  *)
(* HTML mode, the frontmatter segment plus 4 content slides in Markdown.   *)
(***************************************************************************)
C5_FourSlides ==
    /\ pc = "template_html" => Len(html.containers) = 4
    /\ pc = "template_split" =>
          /\ Len(slides) = 4 + 1
          /\ StartsWith(slides[1], Dashes) /\ EndsWith(slides[1], Dashes)

(***************************************************************************)
(* C6: in both modes the closing slide of the Template Renderer holds the  *)
(* UTC date of the clock at the call, as YYYY-MM-DD.                       *)
(***************************************************************************)
Contains(s, sub) ==
    \E i \in 1..(Len(s) - Len(sub) + 1) : SubSeq(s, i, i + Len(sub) - 1) = sub

C6_ClosingDate ==
    /\ pc = "template_html" =>
          Contains(html.containers[Len(html.containers)].content, Strftime(clock))
    /\ pc = "template_split" =>
          Contains(slides[Len(slides)], Strftime(clock))

(***************************************************************************)
(* C1: with an API key present, when the call of the external generator    *)
(* raises or yields an empty or absent response, a warning is logged, the  *)
(* document written at --out is the Template Renderer's for the same title *)
(* and synopsis, and the process exits with code 0 (both entry points).    *)
(***************************************************************************)
Logged(line) == \E i \in 1..Len(stderr) : stderr[i] = line

GeneratorCalled == (cliKey \/ envKey) /\ Logged("[INFO] Using Gemini API")

FailedResponse == response.kind \in {"import_error", "api_error", "none", "empty"}

\* what the entry point writes for the Template Renderer's content
TemplateDocument ==
    IF mode = "html"
    THEN LET r == ParseHtmlSeed(seed)
         IN  BuildHtmlTemplate(r.title, r.synopsis, clock)
    ELSE LET r == ReadStorySeed(seed, SeedPath)
         IN  EmbedPlaceholdersAndImages(
                 BuildMarpTemplate(r.title, r.synopsis, clock), outPath).doc

C1_FallbackOnFailure ==
    (pc = "done" /\ GeneratorCalled /\ FailedResponse) =>
        /\ Logged("[WARN] Gemini generation failed")
        /\ outFile = <<TemplateDocument>>
        /\ exitCode = 0

C1_Witness ==
    /\ pc = "done" /\ mode = "md" /\ GeneratorCalled
    /\ response.kind = "empty"
    /\ outFile = <<TemplateDocument>>

(***************************************************************************)
(* C2: in both entry points, a missing input file ends the run with exit   *)
(* code 1 and a message on stderr; otherwise, whatever --out is, the       *)
(* needed directories exist, the document is written at --out and the exit *)
(* code is 0.                                                              *)
(***************************************************************************)
C2_ExitBehaviour ==
    pc = "done" =>
        IF ~inputExists
        THEN exitCode = 1 /\ stderr # <<>>
        ELSE /\ exitCode = 0
             /\ outFile # <<>>
             /\ DirName(outPath) = <<>> \/ DirName(outPath) \in dirs

(***************************************************************************)
(* C4: navigation never wraps around: through the buttons and the arrow    *)
(* keys, "previous" on the first slide never shows the last slide and      *)
(* "next" on the last slide never shows the first.                         *)
(***************************************************************************)
C4_NoWrapAround ==
    [][/\ (/\ lastEvent' \in {"prev-btn", "ArrowLeft"}
           /\ TotalSlides > 1 /\ currentSlide = 0)
          => currentSlide' # TotalSlides - 1
       /\ (/\ lastEvent' \in {"next-btn", "ArrowRight"}
           /\ TotalSlides > 1 /\ currentSlide = TotalSlides - 1)
          => currentSlide' # 0]_vars

(***************************************************************************)
(* C11: on a deck with at least one rendered slide, once the script has    *)
(* initialised and after any sequence of button clicks and arrow-key       *)
(* presses, currentSlide is in 0..totalSlides-1, exactly the slide at      *)
(* currentSlide carries the active class, the counter shows                *)
(* currentSlide+1, the previous button is disabled exactly on the first    *)
(* slide and the next button exactly on the last.                          *)
(***************************************************************************)
C11_NavigationInvariant ==
    (pc = "ready" /\ TotalSlides >= 1) =>
        /\ currentSlide \in 0..(TotalSlides - 1)
        /\ active = {currentSlide}
        /\ counterText = currentSlide + 1
        /\ prevDisabled = (currentSlide = 0)
        /\ nextDisabled = (currentSlide = TotalSlides - 1)

\* an arrow key has wrapped the display from the first slide to the last
C11_Witness ==
    /\ pc = "ready" /\ TotalSlides >= 3
    /\ lastEvent = "ArrowLeft"
    /\ currentSlide = TotalSlides - 1
    /\ active = {TotalSlides - 1}
    /\ nextDisabled /\ ~prevDisabled

=============================================================================
